---- MODULE Spec2Model ----
(***************************************************************************)
(* Command pattern over bank accounts (go-command): BankAccount,           *)
(* BankAccountCommand (leaf), CompositeBankAccountCommand and              *)
(* MoneyTransferCommand, with Call / Undo / Succeeded / SetSucceeded.      *)
(*                                                                         *)
(* Balances and amounts are float64 in the source.  They are modelled as   *)
(* integers: every value used here is a whole number far below 2^53, on    *)
(* which float64 addition, subtraction and comparison are exact.           *)
(*                                                                         *)
(* The heap is a pair [balance, objs]: balance maps each account to its    *)
(* balance, objs is the sequence of command objects, and a command refers  *)
(* to another object by its index in objs (the Go pointer).                *)
(***************************************************************************)
EXTENDS Integers, Sequences, FiniteSets, TLC

VARIABLES balance, objs, called, log, pc

vars == <<balance, objs, called, log, pc>>

(***************************************************************************)
(* Program constants and the bounds of the model                           *)
(***************************************************************************)
overdraftLimit == -500

Accounts == {"A", "B"}

Actions == {"Deposit", "Withdraw"}

\* amounts given to commands: the non-negative quantities of the data model,
\* among them zero and one no balance of the model can cover (the source
\* takes any float64 and does not check the sign)
Amounts == {0, 300, 2000}

\* the amount of the command that runs beside the transfer
OtherAmounts == {300}

\* the literals of main, added to Amounts for the run of main
MainAmounts == Amounts \cup {200, 500}

\* balances accounts are constructed with: a struct literal, unchecked, so an
\* account may start below the overdraft floor
InitBalances == {1000, -200, -800}

\* the operations are explored while every balance stays within +-MaxBalance
MaxBalance == 1300

\* mutant of Withdraw: no overdraft floor, every withdrawal is accepted
WithdrawNoFloor(bal, account, amount) ==
    [ok |-> TRUE, balance |-> [bal EXCEPT ![account] = bal[account] - amount]]

(***************************************************************************)
(* BankAccount                                                             *)
(***************************************************************************)
\* mutant of Withdraw: the floor test is strict the wrong way round (<=)
WithdrawOffByOne(bal, account, amount) ==
    IF bal[account] - amount <= overdraftLimit
    THEN [ok |-> FALSE, balance |-> bal]
    ELSE [ok |-> TRUE, balance |-> [bal EXCEPT ![account] = @ - amount]]

\* func (account *BankAccount) Withdraw(amount float64) bool
Withdraw(bal, account, amount) ==
    IF bal[account] - amount < overdraftLimit
    THEN [ok |-> FALSE, balance |-> bal]
    ELSE [ok |-> TRUE, balance |-> [bal EXCEPT ![account] = @ - amount]]

\* func (account *BankAccount) Deposit(amount float64)
Deposit(bal, account, amount) ==
    [bal EXCEPT ![account] = @ + amount]

(***************************************************************************)
(* Constructors                                                            *)
(***************************************************************************)
\* &BankAccountCommand{account: .., action: .., amount: ..}; succeeded is the
\* zero value false
NewBankAccountCommand(account, action, amount) ==
    [kind |-> "leaf", account |-> account, action |-> action,
     amount |-> amount, succeeded |-> FALSE]

\* &CompositeBankAccountCommand{commands: ..}
NewCompositeBankAccountCommand(commands) ==
    [kind |-> "composite", commands |-> commands]

\* NewMoneyTransferCommand(from, to, amount), appended to the objects os: the
\* withdraw leg, the deposit leg, then the transfer object holding both
NewMoneyTransferCommand(os, from, to, amount) ==
    LET withdrawCmd == Len(os) + 1
        depositCmd  == Len(os) + 2
    IN  os \o << NewBankAccountCommand(from, "Withdraw", amount),
                 NewBankAccountCommand(to, "Deposit", amount),
                 [kind |-> "transfer", commands |-> <<withdrawCmd, depositCmd>>,
                  from |-> from, to |-> to, amount |-> amount] >>

(***************************************************************************)
(* BankAccountCommand                                                      *)
(***************************************************************************)
\* mutant of BankAccountCommandCall: a deposit does not set succeeded
BankAccountCommandCallNoFlag(h, id) ==
    LET c == h.objs[id] IN
    IF c.action = "Deposit"
    THEN [balance |-> Deposit(h.balance, c.account, c.amount), objs |-> h.objs]
    ELSE LET r == Withdraw(h.balance, c.account, c.amount)
         IN  [balance |-> r.balance,
              objs |-> [h.objs EXCEPT ![id].succeeded = r.ok]]

\* func (c *BankAccountCommand) Call()
BankAccountCommandCall(h, id) ==
    LET c == h.objs[id] IN
    IF c.action = "Deposit"
    THEN [balance |-> Deposit(h.balance, c.account, c.amount),
          objs |-> [h.objs EXCEPT ![id].succeeded = TRUE]]
    ELSE LET r == Withdraw(h.balance, c.account, c.amount)
         IN  [balance |-> r.balance,
              objs |-> [h.objs EXCEPT ![id].succeeded = r.ok]]

\* mutant of BankAccountCommandUndo: the succeeded guard is missing
BankAccountCommandUndoNoGuard(h, id) ==
    LET c == h.objs[id] IN
    IF c.action = "Deposit"
    THEN [balance |-> Withdraw(h.balance, c.account, c.amount).balance,
          objs |-> h.objs]
    ELSE [balance |-> Deposit(h.balance, c.account, c.amount), objs |-> h.objs]

\* mutant of BankAccountCommandUndo: the action is repeated, not inverted
BankAccountCommandUndoSameAction(h, id) ==
    LET c == h.objs[id] IN
    IF ~c.succeeded
    THEN h
    ELSE IF c.action = "Deposit"
         THEN [balance |-> Deposit(h.balance, c.account, c.amount),
               objs |-> h.objs]
         ELSE [balance |-> Withdraw(h.balance, c.account, c.amount).balance,
               objs |-> h.objs]

\* mutant of BankAccountCommandUndo: an undone command is marked as not
\* succeeded, so that a second Undo() does nothing
BankAccountCommandUndoClearsFlag(h, id) ==
    LET c == h.objs[id] IN
    IF ~c.succeeded
    THEN h
    ELSE IF c.action = "Deposit"
         THEN [balance |-> Withdraw(h.balance, c.account, c.amount).balance,
               objs |-> [h.objs EXCEPT ![id].succeeded = FALSE]]
         ELSE [balance |-> Deposit(h.balance, c.account, c.amount),
               objs |-> [h.objs EXCEPT ![id].succeeded = FALSE]]

\* func (c *BankAccountCommand) Undo(): the result of Withdraw is dropped
BankAccountCommandUndo(h, id) ==
    LET c == h.objs[id] IN
    IF ~c.succeeded
    THEN h
    ELSE IF c.action = "Deposit"
         THEN [balance |-> Withdraw(h.balance, c.account, c.amount).balance,
               objs |-> h.objs]
         ELSE [balance |-> Deposit(h.balance, c.account, c.amount),
               objs |-> h.objs]

\* func (c *BankAccountCommand) Succeeded() bool
BankAccountCommandSucceeded(h, id) == h.objs[id].succeeded

\* func (c *BankAccountCommand) SetSucceeded(value bool)
BankAccountCommandSetSucceeded(h, id, value) ==
    [balance |-> h.balance, objs |-> [h.objs EXCEPT ![id].succeeded = value]]

(***************************************************************************)
(* The Command interface: calls on a member go through the interface and   *)
(* are dispatched on the dynamic type of the object                        *)
(***************************************************************************)
RECURSIVE Call(_, _), Undo(_, _), Succeeded(_, _), SetSucceeded(_, _, _)
RECURSIVE CallEach(_, _, _), UndoEach(_, _, _), SetSucceededEach(_, _, _, _)
RECURSIVE TransferEach(_, _, _, _), TransferEachNoMark(_, _, _, _)
RECURSIVE SucceededEach(_, _, _)

\* for _, cmd := range c.commands { cmd.Call() }, from member i on
CallEach(h, commands, i) ==
    IF i > Len(commands)
    THEN h
    ELSE CallEach(Call(h, commands[i]), commands, i + 1)

\* mutant of CompositeBankAccountCommandCall: members after a failed one are
\* skipped and marked failed, as in MoneyTransferCommand.Call
CompositeBankAccountCommandCallShortCircuit(h, id) ==
    TransferEach(h, h.objs[id].commands, 1, TRUE)

\* func (c *CompositeBankAccountCommand) Call()
CompositeBankAccountCommandCall(h, id) ==
    CallEach(h, h.objs[id].commands, 1)

\* for i := len(c.commands) - 1; i >= 0; i-- { c.commands[i].Undo() }, from
\* member i down
UndoEach(h, commands, i) ==
    IF i < 1
    THEN h
    ELSE UndoEach(Undo(h, commands[i]), commands, i - 1)

\* mutant of CompositeBankAccountCommandUndo: the members are undone first to
\* last
CompositeBankAccountCommandUndoForward(h, id) ==
    IF Len(h.objs[id].commands) = 2
    THEN Undo(Undo(h, h.objs[id].commands[1]), h.objs[id].commands[2])
    ELSE UndoEach(h, h.objs[id].commands, Len(h.objs[id].commands))

\* func (c *CompositeBankAccountCommand) Undo()
CompositeBankAccountCommandUndo(h, id) ==
    UndoEach(h, h.objs[id].commands, Len(h.objs[id].commands))

\* for _, cmd := range c.commands { if !cmd.Succeeded() { return false } };
\* return true, from member i on
SucceededEach(h, commands, i) ==
    IF i > Len(commands)
    THEN TRUE
    ELSE IF ~Succeeded(h, commands[i])
         THEN FALSE
         ELSE SucceededEach(h, commands, i + 1)

\* mutant of CompositeBankAccountCommandSucceeded: one succeeded member is
\* enough, and a composite without members has not succeeded
CompositeBankAccountCommandSucceededAny(h, id) ==
    \E i \in 1..Len(h.objs[id].commands) : Succeeded(h, h.objs[id].commands[i])

\* func (c *CompositeBankAccountCommand) Succeeded() bool
CompositeBankAccountCommandSucceeded(h, id) ==
    SucceededEach(h, h.objs[id].commands, 1)

\* for _, cmd := range c.commands { cmd.SetSucceeded(value) }, from member i on
SetSucceededEach(h, commands, i, value) ==
    IF i > Len(commands)
    THEN h
    ELSE SetSucceededEach(SetSucceeded(h, commands[i], value), commands, i + 1, value)

\* mutant of CompositeBankAccountCommandSetSucceeded: only the first member
\* is set
CompositeBankAccountCommandSetSucceededFirstOnly(h, id, value) ==
    IF Len(h.objs[id].commands) = 0
    THEN h
    ELSE SetSucceeded(h, h.objs[id].commands[1], value)

\* func (c *CompositeBankAccountCommand) SetSucceeded(value bool)
CompositeBankAccountCommandSetSucceeded(h, id, value) ==
    SetSucceededEach(h, h.objs[id].commands, 1, value)

\* the loop of MoneyTransferCommand.Call from member i on, with the running
\* flag succeded
TransferEach(h, commands, i, succeded) ==
    IF i > Len(commands)
    THEN h
    ELSE IF succeded
         THEN LET h2 == Call(h, commands[i])
              IN  TransferEach(h2, commands, i + 1, Succeeded(h2, commands[i]))
         ELSE TransferEach(SetSucceeded(h, commands[i], FALSE), commands, i + 1,
                           succeded)

\* the same loop without cmd.SetSucceeded(false) for the skipped members
TransferEachNoMark(h, commands, i, succeded) ==
    IF i > Len(commands)
    THEN h
    ELSE IF succeded
         THEN LET h2 == Call(h, commands[i])
              IN  TransferEachNoMark(h2, commands, i + 1,
                                     Succeeded(h2, commands[i]))
         ELSE TransferEachNoMark(h, commands, i + 1, succeded)

\* mutant of MoneyTransferCommandCall: every member is called, as in the base
\* composite (no short circuit)
MoneyTransferCommandCallNoShortCircuit(h, id) ==
    CallEach(h, h.objs[id].commands, 1)

\* mutant of MoneyTransferCommandCall: skipped members keep their old flag
MoneyTransferCommandCallNoMark(h, id) ==
    TransferEachNoMark(h, h.objs[id].commands, 1, TRUE)

\* mutant of MoneyTransferCommandCall: the loop stops after the first member
MoneyTransferCommandCallFirstOnly(h, id) ==
    Call(h, h.objs[id].commands[1])

\* mutant of MoneyTransferCommandCall: the members are walked deposit first
MoneyTransferCommandCallDepositFirst(h, id) ==
    TransferEach(h, << h.objs[id].commands[2], h.objs[id].commands[1] >>, 1, TRUE)

\* mutant of MoneyTransferCommandCall: the deposit is made although nothing
\* was withdrawn, only the flags follow the short circuit
MoneyTransferCommandCallDepositAnyway(h, id) ==
    LET h2 == TransferEach(h, h.objs[id].commands, 1, TRUE)
        t == h.objs[id]
    IN  IF Succeeded(h2, id)
        THEN h2
        ELSE [h2 EXCEPT !.balance = Deposit(h2.balance, t.to, t.amount)]

\* func (c *MoneyTransferCommand) Call()
MoneyTransferCommandCall(h, id) ==
    TransferEach(h, h.objs[id].commands, 1, TRUE)

\* cmd.Call() through the Command interface (MoneyTransferCommand overrides
\* the Call it embeds)
Call(h, id) ==
    CASE h.objs[id].kind = "leaf"      -> BankAccountCommandCall(h, id)
      [] h.objs[id].kind = "composite" -> CompositeBankAccountCommandCall(h, id)
      [] h.objs[id].kind = "transfer"  -> MoneyTransferCommandCall(h, id)

\* cmd.Undo() through the Command interface (MoneyTransferCommand inherits it)
Undo(h, id) ==
    CASE h.objs[id].kind = "leaf"      -> BankAccountCommandUndo(h, id)
      [] h.objs[id].kind = "composite" -> CompositeBankAccountCommandUndo(h, id)
      [] h.objs[id].kind = "transfer"  -> CompositeBankAccountCommandUndo(h, id)

\* cmd.Succeeded() through the Command interface
Succeeded(h, id) ==
    CASE h.objs[id].kind = "leaf"      -> BankAccountCommandSucceeded(h, id)
      [] h.objs[id].kind = "composite" -> CompositeBankAccountCommandSucceeded(h, id)
      [] h.objs[id].kind = "transfer"  -> CompositeBankAccountCommandSucceeded(h, id)

\* cmd.SetSucceeded(value) through the Command interface
SetSucceeded(h, id, value) ==
    CASE h.objs[id].kind = "leaf"      -> BankAccountCommandSetSucceeded(h, id, value)
      [] h.objs[id].kind = "composite" ->
             CompositeBankAccountCommandSetSucceeded(h, id, value)
      [] h.objs[id].kind = "transfer"  ->
             CompositeBankAccountCommandSetSucceeded(h, id, value)

(***************************************************************************)
(* State machine: a client holds the accounts and the commands it built    *)
(* and invokes Call, Undo and SetSucceeded on them in any order.  The legs *)
(* of a transfer are created inside NewMoneyTransferCommand and are        *)
(* reachable only through the transfer.                                    *)
(*                                                                         *)
(* History variables, read by the properties only:                         *)
(*   log     the last operations, most recent last, each with the heap it  *)
(*           found: op, the object id (or account), the value given to     *)
(*           SetSucceeded, and balance / objs before the operation;        *)
(*   called  for each transfer, the outcome of the client's most recent    *)
(*           Call() on it: "none", "ok" or "failed".                       *)
(***************************************************************************)
Heap == [balance |-> balance, objs |-> objs]

IsMember(os, id) ==
    \E j \in 1..Len(os) :
        /\ os[j].kind # "leaf"
        /\ \E i \in 1..Len(os[j].commands) : os[j].commands[i] = id

\* id is a leg of a transfer: built inside NewMoneyTransferCommand, it is
\* reachable only through the transfer
IsLeg(os, id) ==
    \E j \in 1..Len(os) :
        /\ os[j].kind = "transfer"
        /\ \E i \in 1..Len(os[j].commands) : os[j].commands[i] = id

\* the commands the client holds: all it built itself, the members it put
\* into a composite included
Roots == {id \in 1..Len(objs) : ~IsLeg(objs, id)}

InRange(bal) == \A a \in DOMAIN bal : -MaxBalance <= bal[a] /\ bal[a] <= MaxBalance

Entry(op, id, value) ==
    [op |-> op, id |-> id, value |-> value, balance |-> balance, objs |-> objs]

\* l with e appended, keeping the last n entries (none when n = 0)
Push(l, e, n) ==
    IF n = 0
    THEN << >>
    ELSE IF Len(l) < n THEN Append(l, e) ELSE Append(Tail(l), e)

\* the client runs cmd.Call() on a command it holds (n: the entries log keeps)
DoCall(id, n) ==
    LET h2 == Call(Heap, id) IN
    /\ InRange(h2.balance)
    /\ balance' = h2.balance
    /\ objs' = h2.objs
    /\ called' = IF objs[id].kind = "transfer"
                 THEN [called EXCEPT ![id] = IF Succeeded(h2, id) THEN "ok" ELSE "failed"]
                 ELSE called
    /\ log' = Push(log, Entry("Call", id, FALSE), n)
    /\ UNCHANGED pc

\* the client runs cmd.Undo()
DoUndo(id, n) ==
    LET h2 == Undo(Heap, id) IN
    /\ InRange(h2.balance)
    /\ balance' = h2.balance
    /\ objs' = h2.objs
    /\ log' = Push(log, Entry("Undo", id, FALSE), n)
    /\ UNCHANGED <<called, pc>>

\* the client runs cmd.SetSucceeded(value)
DoSetSucceeded(id, value, n) ==
    LET h2 == SetSucceeded(Heap, id, value) IN
    /\ balance' = h2.balance
    /\ objs' = h2.objs
    /\ log' = Push(log, Entry("SetSucceeded", id, value), n)
    /\ UNCHANGED <<called, pc>>

ClientCall(n) == \E id \in Roots : DoCall(id, n)

ClientUndo(n) == \E id \in Roots : DoUndo(id, n)

ClientSetSucceeded(n) ==
    \E id \in Roots, value \in BOOLEAN : DoSetSucceeded(id, value, n)

Next(n) == ClientCall(n) \/ ClientUndo(n) \/ ClientSetSucceeded(n)

\* Spec: two accounts and one transfer between any two of them (the same one
\* included); log keeps the last two operations
Init ==
    /\ balance \in [Accounts -> InitBalances]
    /\ \E from \in Accounts, to \in Accounts, amount \in Amounts :
          objs = NewMoneyTransferCommand(<< >>, from, to, amount)
    /\ called = [id \in 1..3 |-> "none"]
    /\ log = << >>
    /\ pc = "client"

Spec == Init /\ [][Next(2)]_vars

\* SpecLeaf: two accounts and a single leaf command of any kind; log keeps the
\* last two operations
InitLeaf ==
    /\ balance \in [Accounts -> InitBalances]
    /\ \E account \in Accounts, action \in Actions, amount \in Amounts :
          objs = << NewBankAccountCommand(account, action, amount) >>
    /\ called = [id \in 1..1 |-> "none"]
    /\ log = << >>
    /\ pc = "client"

SpecLeaf == InitLeaf /\ [][Next(2)]_vars

\* SpecClient: two accounts that start at or above the overdraft floor, one
\* transfer and one independent leaf command that the client runs in between;
\* log keeps the last operation
InitClient ==
    /\ balance \in [Accounts -> {b \in InitBalances : b >= overdraftLimit}]
    /\ \E from \in Accounts, to \in Accounts, amount \in Amounts,
          account \in Accounts, action \in Actions, amount2 \in OtherAmounts :
          objs = NewMoneyTransferCommand(<< >>, from, to, amount)
                 \o << NewBankAccountCommand(account, action, amount2) >>
    /\ called = [id \in 1..4 |-> "none"]
    /\ log = << >>
    /\ pc = "client"

SpecClient == InitClient /\ [][Next(1)]_vars

(***************************************************************************)
(* SpecAccount: the client calls Withdraw and Deposit on the accounts      *)
(* themselves; the log entry keeps the amount and what Withdraw returned   *)
(***************************************************************************)
AccountEntry(op, account, amount, ok) ==
    [op |-> op, id |-> account, amount |-> amount, ok |-> ok, balance |-> balance]

AccountWithdraw(account, amount) ==
    LET r == Withdraw(balance, account, amount) IN
    /\ InRange(r.balance)
    /\ balance' = r.balance
    /\ log' = Push(log, AccountEntry("Withdraw", account, amount, r.ok), 2)
    /\ UNCHANGED <<objs, called, pc>>

AccountDeposit(account, amount) ==
    LET b2 == Deposit(balance, account, amount) IN
    /\ InRange(b2)
    /\ balance' = b2
    /\ log' = Push(log, AccountEntry("Deposit", account, amount, TRUE), 2)
    /\ UNCHANGED <<objs, called, pc>>

InitAccount ==
    /\ balance \in [Accounts -> InitBalances]
    /\ objs = << >>
    /\ called = << >>
    /\ log = << >>
    /\ pc = "client"

ClientWithdraw == \E account \in Accounts, amount \in Amounts : AccountWithdraw(account, amount)

ClientDeposit == \E account \in Accounts, amount \in Amounts : AccountDeposit(account, amount)

NextAccount == ClientWithdraw \/ ClientDeposit

SpecAccount == InitAccount /\ [][NextAccount]_vars

(***************************************************************************)
(* SpecMain: the simple-command part of main, with the literals 1000, 200  *)
(* and 500 replaced by any starting balance and any two amounts:           *)
(*   cmd  := Withdraw(a) and cmd2 := Deposit(b) on one account;            *)
(*   cmd.Call(); cmd2.Call(); cmd.Undo(); cmd2.Undo()                      *)
(* log keeps the whole run (four operations).                              *)
(***************************************************************************)
InitMain ==
    /\ \E b0 \in InitBalances : balance = [a \in {"A"} |-> b0]
    /\ \E a \in MainAmounts, b \in MainAmounts :
          objs = << NewBankAccountCommand("A", "Withdraw", a),
                    NewBankAccountCommand("A", "Deposit", b) >>
    /\ called = [id \in 1..2 |-> "none"]
    /\ log = << >>
    /\ pc = "cmd.Call"

MainStep(h2, op, id, next) ==
    /\ balance' = h2.balance
    /\ objs' = h2.objs
    /\ log' = Push(log, Entry(op, id, FALSE), 4)
    /\ pc' = next
    /\ UNCHANGED called

MainCmdCall ==
    pc = "cmd.Call" /\ MainStep(Call(Heap, 1), "Call", 1, "cmd2.Call")

MainCmd2Call ==
    pc = "cmd2.Call" /\ MainStep(Call(Heap, 2), "Call", 2, "cmd.Undo")

MainCmdUndo ==
    pc = "cmd.Undo" /\ MainStep(Undo(Heap, 1), "Undo", 1, "cmd2.Undo")

MainCmd2Undo ==
    pc = "cmd2.Undo" /\ MainStep(Undo(Heap, 2), "Undo", 2, "done")

NextMain == MainCmdCall \/ MainCmd2Call \/ MainCmdUndo \/ MainCmd2Undo

SpecMain == InitMain /\ [][NextMain]_vars

(***************************************************************************)
(* Properties.  Last is the most recent operation and Prev the one before  *)
(* it; HeapAt(e) is the heap operation e found.                            *)
(***************************************************************************)
\* SpecFloor: account A starts at or above the overdraft floor, account B
\* anywhere; a transfer (1..3), a leaf (4) and a composite (5) that is empty
\* or holds the transfer and the leaf in either order.  log is not kept.
CompositeOfBoth == {<< >>, <<4, 3>>, <<3, 4>>}

InitFloor ==
    /\ balance \in {b \in [Accounts -> InitBalances] : b["A"] >= overdraftLimit}
    /\ \E from \in Accounts, to \in Accounts, amount \in Amounts,
          account \in Accounts, action \in Actions, amount2 \in OtherAmounts,
          commands \in CompositeOfBoth :
          objs = NewMoneyTransferCommand(<< >>, from, to, amount)
                 \o << NewBankAccountCommand(account, action, amount2),
                       NewCompositeBankAccountCommand(commands) >>
    /\ called = [id \in 1..5 |-> "none"]
    /\ log = << >>
    /\ pc = "client"

SpecFloor == InitFloor /\ [][Next(0)]_vars

\* SpecComposite: two accounts, two leaf commands (1, 2) and a composite (3)
\* built from them: empty, of the first alone, or of both in insertion order
\* 1, 2.  The client keeps the leaves as well; log keeps the last operation.
CompositeOfLeaves == {<< >>, <<1>>, <<1, 2>>}

InitComposite ==
    /\ balance \in [Accounts -> InitBalances]
    /\ \E account1 \in Accounts, action1 \in Actions, amount1 \in Amounts,
          account2 \in Accounts, action2 \in Actions, amount2 \in OtherAmounts,
          commands \in CompositeOfLeaves :
          objs = << NewBankAccountCommand(account1, action1, amount1),
                    NewBankAccountCommand(account2, action2, amount2),
                    NewCompositeBankAccountCommand(commands) >>
    /\ called = [id \in 1..3 |-> "none"]
    /\ log = << >>
    /\ pc = "client"

SpecComposite == InitComposite /\ [][Next(1)]_vars

Last == log[Len(log)]

Prev == log[Len(log) - 1]

HeapAt(e) == [balance |-> e.balance, objs |-> e.objs]

\* the most recent operation is op on a command of the given kind
LastIs(op, kind) ==
    /\ Len(log) >= 1
    /\ Last.op = op
    /\ objs[Last.id].kind = kind

\* the last two operations are op1 then op2 on one command of the given kind
LastTwoAre(op1, op2, kind) ==
    /\ Len(log) = 2
    /\ Prev.op = op1
    /\ Last.op = op2
    /\ Prev.id = Last.id
    /\ objs[Last.id].kind = kind

\* operation e on a transfer found from.balance - amount < overdraftLimit
WithdrawalRejected(e) ==
    e.balance[objs[e.id].from] - objs[e.id].amount < overdraftLimit

\* the two balances of transfer t are what they were in bal
SameBalances(t, bal) ==
    /\ balance[t.from] = bal[t.from]
    /\ balance[t.to] = bal[t.to]

\* C1: transfer atomicity.  Whenever a transfer's Call() found
\* from.balance - amount < overdraftLimit, after the Call() from.balance and
\* to.balance equal their values before it and Succeeded() is false.
C1_TransferAtomicity ==
    (LastIs("Call", "transfer") /\ WithdrawalRejected(Last))
        => /\ SameBalances(objs[Last.id], Last.balance)
           /\ ~Succeeded(Heap, Last.id)

\* a rejected transfer between two accounts whose deposit would have shown
C1_Witness ==
    /\ LastIs("Call", "transfer")
    /\ WithdrawalRejected(Last)
    /\ objs[Last.id].from # objs[Last.id].to
    /\ objs[Last.id].amount > 0

\* C2 as claimed: whenever a transfer's Call() found
\* from.balance - amount >= overdraftLimit, after it from.balance is amount
\* lower, to.balance is amount higher and Succeeded() is true.
C2_TransferSuccessPath ==
    (LastIs("Call", "transfer") /\ ~WithdrawalRejected(Last))
        => LET t == objs[Last.id] IN
           /\ balance[t.from] = Last.balance[t.from] - t.amount
           /\ balance[t.to] = Last.balance[t.to] + t.amount
           /\ Succeeded(Heap, Last.id)

\* C2 amended: the same, for a transfer between two different accounts.
C2_TransferSuccessPathDistinct ==
    (/\ LastIs("Call", "transfer")
     /\ ~WithdrawalRejected(Last)
     /\ objs[Last.id].from # objs[Last.id].to)
        => LET t == objs[Last.id] IN
           /\ balance[t.from] = Last.balance[t.from] - t.amount
           /\ balance[t.to] = Last.balance[t.to] + t.amount
           /\ Succeeded(Heap, Last.id)

\* a transfer of a non-zero amount between two accounts went through
C2_Witness ==
    /\ LastIs("Call", "transfer")
    /\ ~WithdrawalRejected(Last)
    /\ objs[Last.id].from # objs[Last.id].to
    /\ objs[Last.id].amount # 0
    /\ balance[objs[Last.id].to] # Last.balance[objs[Last.id].to]

\* C3: transfer undo round trip.  Whenever a transfer's Call() succeeded and
\* Undo() of the transfer was the next operation, from.balance and to.balance
\* equal their values from before the Call().
C3_TransferUndoRoundTrip ==
    (LastTwoAre("Call", "Undo", "transfer") /\ Succeeded(HeapAt(Last), Last.id))
        => SameBalances(objs[Last.id], Prev.balance)

\* C4, on a transfer between two different accounts both of whose legs still
\* carry the flag of that Call(): whenever Undo() runs on a transfer whose
\* most recent Call() succeeded, to.balance is amount lower and from.balance
\* amount higher than just before the Undo(), whatever other commands did to
\* the two accounts since the Call().
C4_UndoReversesAllLegs ==
    (/\ LastIs("Undo", "transfer")
     /\ called[Last.id] = "ok"
     /\ Succeeded(HeapAt(Last), Last.id)
     /\ objs[Last.id].from # objs[Last.id].to)
        => LET t == objs[Last.id] IN
           /\ balance[t.to] = Last.balance[t.to] - t.amount
           /\ balance[t.from] = Last.balance[t.from] + t.amount

\* C5: whenever a transfer's Call() had its withdrawal rejected and Undo() of
\* the transfer was the next operation, the Undo() changed neither
\* from.balance nor to.balance (whatever the legs' flags were before the
\* Call()).
C5_UndoAfterRejectedTransfer ==
    (LastTwoAre("Call", "Undo", "transfer") /\ WithdrawalRejected(Prev))
        => /\ SameBalances(objs[Last.id], Last.balance)
           /\ balance = Last.balance

\* the rejected Call() found the deposit leg's flag true (as an earlier
\* successful Call() of the transfer leaves it), and undoing that leg would
\* have gone through
C5_Witness ==
    /\ LastTwoAre("Call", "Undo", "transfer")
    /\ WithdrawalRejected(Prev)
    /\ LET t == objs[Last.id] IN
       /\ Prev.objs[t.commands[2]].succeeded
       /\ t.amount # 0
       /\ Last.balance[t.to] - t.amount >= overdraftLimit

\* C6: Account.Withdraw.  Whenever Withdraw(A) ran on an account of balance
\* B: it returned true and the balance is B - A if and only if
\* B - A >= overdraftLimit, and otherwise it returned false and the balance
\* is still B.
C6_Withdraw ==
    (Len(log) >= 1 /\ Last.op = "Withdraw")
        => LET B == Last.balance[Last.id]
               A == Last.amount
           IN  /\ (Last.ok /\ balance[Last.id] = B - A) <=> (B - A >= overdraftLimit)
               /\ ~(B - A >= overdraftLimit) => (~Last.ok /\ balance[Last.id] = B)
               /\ \A other \in Accounts \ {Last.id} : balance[other] = Last.balance[other]

\* a withdrawal that lands exactly on the floor was accepted
C6_Witness ==
    /\ Len(log) >= 1
    /\ Last.op = "Withdraw"
    /\ Last.amount > 0
    /\ Last.balance[Last.id] - Last.amount = overdraftLimit
    /\ Last.ok

\* C7: Deposit always succeeds.  Whenever Call() ran on a Deposit leaf of
\* amount A whose account had balance B, the balance is B + A and the
\* command's succeeded flag is true, whatever flag and balance it found.
C7_DepositAlwaysSucceeds ==
    (LastIs("Call", "leaf") /\ objs[Last.id].action = "Deposit")
        => LET c == objs[Last.id] IN
           /\ balance[c.account] = Last.balance[c.account] + c.amount
           /\ c.succeeded
           /\ Succeeded(Heap, Last.id)

\* a deposit into an account below the floor, by a command whose flag was false
C7_Witness ==
    /\ LastIs("Call", "leaf")
    /\ objs[Last.id].action = "Deposit"
    /\ objs[Last.id].amount > 0
    /\ ~Last.objs[Last.id].succeeded
    /\ Last.balance[objs[Last.id].account] < overdraftLimit

\* the inverse operation that Undo() of leaf c ran on the heap of e was not
\* rejected by the overdraft floor (only Withdraw, the inverse of a deposit,
\* tests the floor)
InverseAccepted(c, e) ==
    c.action = "Deposit" => e.balance[c.account] - c.amount >= overdraftLimit

\* C8: leaf undo round trip.  Whenever a leaf's Call() succeeded and Undo()
\* of that leaf was the next operation, and the inverse operation was not
\* rejected by the overdraft floor, every balance equals its value from
\* before the Call().
C8_LeafUndoRoundTrip ==
    (/\ LastTwoAre("Call", "Undo", "leaf")
     /\ Last.objs[Last.id].succeeded
     /\ InverseAccepted(objs[Last.id], Last))
        => balance = Prev.balance

\* a call that changed the balance was undone
C8_Witness ==
    /\ LastTwoAre("Call", "Undo", "leaf")
    /\ Last.objs[Last.id].succeeded
    /\ InverseAccepted(objs[Last.id], Last)
    /\ Last.balance # Prev.balance

\* C9: undo of a non-succeeded leaf is a no-op.  Whenever Undo() ran on a leaf
\* whose succeeded flag was false, every balance is what it was before.
C9_UndoOfFailedLeafIsNoOp ==
    (LastIs("Undo", "leaf") /\ ~Last.objs[Last.id].succeeded)
        => balance = Last.balance

\* the flag was true and SetSucceeded(false) cleared it just before the
\* Undo(), whose inverse operation would have gone through
C9_Witness ==
    /\ LastTwoAre("SetSucceeded", "Undo", "leaf")
    /\ Prev.value = FALSE
    /\ Prev.objs[Last.id].succeeded
    /\ ~Last.objs[Last.id].succeeded
    /\ objs[Last.id].amount > 0
    /\ InverseAccepted(objs[Last.id], Last)

\* the other ways to a false flag: a rejected withdrawal, and no call at all
C9_WitnessRejected ==
    /\ LastTwoAre("Call", "Undo", "leaf")
    /\ ~Last.objs[Last.id].succeeded

C9_WitnessNeverCalled ==
    /\ LastIs("Undo", "leaf")
    /\ Len(log) = 1
    /\ objs[Last.id].amount > 0

\* C10: each leaf Undo() works on the current balance.  In the run of main
\* with cmd = Withdraw(a), cmd2 = Deposit(b) on an account of balance B: if
\* both Call()s succeeded, the balance is B - a after the first and
\* B - a + b after the second, cmd.Undo() leaves B + b and cmd2.Undo() leaves
\* B.
C10_UndoOnCurrentBalance ==
    (pc = "done" /\ log[3].objs[1].succeeded /\ log[3].objs[2].succeeded)
        => LET B == log[1].balance["A"]
               a == objs[1].amount
               b == objs[2].amount
           IN  /\ log[2].balance["A"] = B - a
               /\ log[3].balance["A"] = B - a + b
               /\ log[4].balance["A"] = B + b
               /\ balance["A"] = B

\* the demo trace of main: 1000 -> 800 -> 1300 -> 1500 -> 1000
C10_Witness ==
    /\ pc = "done"
    /\ objs[1].amount = 200
    /\ objs[2].amount = 500
    /\ log[1].balance["A"] = 1000
    /\ log[2].balance["A"] = 800
    /\ log[3].balance["A"] = 1300
    /\ log[4].balance["A"] = 1500
    /\ balance["A"] = 1000

\* C11: overdraft floor.  All amounts being non-negative, an account whose
\* first balance is at or above overdraftLimit (account A of SpecFloor) has a
\* balance at or above overdraftLimit in every state that Call(), Undo() and
\* SetSucceeded() on the leaf, the composite and the transfer can reach,
\* whatever the other account's balance is.
C11_OverdraftFloor == balance["A"] >= overdraftLimit

\* A sits exactly on the floor after the composite ran both its members,
\* while B is below the floor
C11_Witness ==
    /\ balance["A"] = overdraftLimit
    /\ balance["B"] < overdraftLimit
    /\ Len(objs[5].commands) = 2
    /\ \A id \in {1, 2, 4} : objs[id].succeeded

\* C12: transfer short circuit.  After every Call() of a transfer: when the
\* withdrawal was accepted, the deposit was made on the balances the
\* withdrawal left; when it was rejected, the deposit leg was not called
\* (to.balance is what it was and the leg's flag is false); in both cases
\* the two legs' succeeded flags are equal.
C12_TransferShortCircuit ==
    LastIs("Call", "transfer")
        => LET t == objs[Last.id]
               w == objs[t.commands[1]]
               d == objs[t.commands[2]]
               withdrawn == [Last.balance EXCEPT ![t.from] = @ - t.amount]
           IN  /\ w.succeeded = d.succeeded
               /\ WithdrawalRejected(Last)
                     => /\ ~d.succeeded
                        /\ balance[t.to] = Last.balance[t.to]
               /\ ~WithdrawalRejected(Last)
                     => /\ d.succeeded
                        /\ balance = [withdrawn EXCEPT ![t.to] = @ + t.amount]

\* a transfer on one account that only the order withdrawal-then-deposit
\* rejects, its deposit leg carrying a true flag from an earlier Call()
C12_Witness ==
    /\ LastIs("Call", "transfer")
    /\ WithdrawalRejected(Last)
    /\ objs[Last.id].from = objs[Last.id].to
    /\ objs[Last.id].amount > 0
    /\ Last.objs[objs[Last.id].commands[2]].succeeded

\* C18: a transfer's Call() conserves money.  After every Call() of a
\* transfer, accepted or rejected, between two accounts or on one account,
\* from.balance + to.balance is what it was before the Call().
C18_TransferConservesMoney ==
    LastIs("Call", "transfer")
        => LET t == objs[Last.id] IN
           balance[t.from] + balance[t.to]
               = Last.balance[t.from] + Last.balance[t.to]

\* an accepted transfer of a positive amount between two accounts
C18_WitnessTwoAccounts ==
    /\ LastIs("Call", "transfer")
    /\ Succeeded(Heap, Last.id)
    /\ objs[Last.id].amount > 0
    /\ objs[Last.id].from # objs[Last.id].to
    /\ balance[objs[Last.id].to] > Last.balance[objs[Last.id].to]

\* an accepted transfer of a positive amount from an account to itself
C18_Witness ==
    /\ LastIs("Call", "transfer")
    /\ Succeeded(Heap, Last.id)
    /\ objs[Last.id].amount > 0
    /\ objs[Last.id].from = objs[Last.id].to

\* what reversing leaf c adds to the balance of account a: nothing when its
\* flag is false, else the amount back for a withdrawal and the amount off
\* for a deposit
ReversalOf(c, a) ==
    IF c.succeeded /\ c.account = a
    THEN IF c.action = "Withdraw" THEN c.amount ELSE 0 - c.amount
    ELSE 0

RECURSIVE ReversalOfAll(_, _, _, _)
\* the sum of ReversalOf over members i..Len(commands) of a composite of leaves
ReversalOfAll(os, commands, a, i) ==
    IF i > Len(commands)
    THEN 0
    ELSE ReversalOf(os[commands[i]], a) + ReversalOfAll(os, commands, a, i + 1)

\* C13 as claimed: after every Undo() of a composite, exactly the members
\* whose succeeded flag was true have been reversed and the others have
\* changed nothing: each balance differs from its value before the Undo() by
\* the amounts of the true-flagged members on that account.
C13_CompositeUndoReversesSucceeded ==
    LastIs("Undo", "composite")
        => \A a \in Accounts :
              balance[a] = Last.balance[a]
                  + ReversalOfAll(Last.objs, objs[Last.id].commands, a, 1)

\* what BankAccountCommand.Undo makes of balances bal for leaf c: a deposit
\* is taken back only if the overdraft floor allows it
UndoneLeaf(bal, c) ==
    IF ~c.succeeded
    THEN bal
    ELSE IF c.action = "Withdraw"
         THEN [bal EXCEPT ![c.account] = @ + c.amount]
         ELSE IF bal[c.account] - c.amount < overdraftLimit
              THEN bal
              ELSE [bal EXCEPT ![c.account] = @ - c.amount]

\* the part of C13 the code keeps: the members are visited last to first,
\* those with a false flag change nothing, and no flag changes
C13_ReverseOrderVisit ==
    LastIs("Undo", "composite")
        => LET commands == objs[Last.id].commands
               n == Len(commands)
           IN  /\ objs = Last.objs
               /\ n = 0 => balance = Last.balance
               /\ n = 1 => balance = UndoneLeaf(Last.balance, objs[commands[1]])
               /\ n = 2 => balance = UndoneLeaf(UndoneLeaf(Last.balance,
                                                          objs[commands[2]]),
                                               objs[commands[1]])

\* an Undo() whose result depends on the order: both members true-flagged on
\* one account, and undoing the deposit first would be rejected
C13_WitnessOrder ==
    /\ LastIs("Undo", "composite")
    /\ Len(objs[Last.id].commands) = 2
    /\ LET c1 == objs[objs[Last.id].commands[1]]
           c2 == objs[objs[Last.id].commands[2]]
       IN  /\ c1.succeeded /\ c2.succeeded
           /\ UndoneLeaf(UndoneLeaf(Last.balance, c2), c1)
                 # UndoneLeaf(UndoneLeaf(Last.balance, c1), c2)

\* whether BankAccountCommand.Call of leaf c is accepted on balances bal
AcceptedLeaf(bal, c) ==
    c.action = "Deposit" \/ bal[c.account] - c.amount >= overdraftLimit

\* the balances BankAccountCommand.Call of leaf c makes of bal
CalledLeaf(bal, c) ==
    IF c.action = "Deposit"
    THEN [bal EXCEPT ![c.account] = @ + c.amount]
    ELSE IF AcceptedLeaf(bal, c)
         THEN [bal EXCEPT ![c.account] = @ - c.amount]
         ELSE bal

\* C14: the base composite does not short-circuit.  After every Call() of a
\* composite each member has been called, in insertion order, on the
\* balances the members before it left, whether or not those succeeded: the
\* balances and every member's flag are those of the members' own Call()s.
\* So a Deposit member after a rejected Withdraw member still adds its
\* amount.
C14_CompositeCallsEveryMember ==
    LastIs("Call", "composite")
        => LET commands == objs[Last.id].commands
               n == Len(commands)
               b0 == Last.balance
           IN  /\ n = 0 => balance = b0
               /\ n = 1 => /\ balance = CalledLeaf(b0, objs[commands[1]])
                           /\ objs[commands[1]].succeeded
                                 = AcceptedLeaf(b0, objs[commands[1]])
               /\ n = 2 => LET b1 == CalledLeaf(b0, objs[commands[1]]) IN
                           /\ balance = CalledLeaf(b1, objs[commands[2]])
                           /\ objs[commands[1]].succeeded
                                 = AcceptedLeaf(b0, objs[commands[1]])
                           /\ objs[commands[2]].succeeded
                                 = AcceptedLeaf(b1, objs[commands[2]])

\* a composite of a Withdraw that was rejected and a Deposit on the other
\* account that was made all the same
C14_Witness ==
    /\ LastIs("Call", "composite")
    /\ Len(objs[Last.id].commands) = 2
    /\ LET c1 == objs[objs[Last.id].commands[1]]
           c2 == objs[objs[Last.id].commands[2]]
       IN  /\ c1.action = "Withdraw"
           /\ ~c1.succeeded
           /\ c2.action = "Deposit"
           /\ c2.succeeded
           /\ c1.account # c2.account
           /\ balance[c1.account] = Last.balance[c1.account]
           /\ balance[c2.account] = Last.balance[c2.account] + c2.amount
           /\ c2.amount > 0

\* what member m of a composite reports, read from the leaves' flags: a
\* leaf's own flag, and for a transfer the flags of its two legs
MemberSucceeded(os, m) ==
    IF os[m].kind = "leaf"
    THEN os[m].succeeded
    ELSE \A i \in 1..Len(os[m].commands) : os[os[m].commands[i]].succeeded

\* C15: in every reachable state, Succeeded() of a composite and of a
\* transfer is true if and only if every member's Succeeded() is true, and
\* it is true for a composite without members.
C15_SucceededIsAndOfMembers ==
    \A id \in 1..Len(objs) :
        objs[id].kind # "leaf"
            => /\ Succeeded(Heap, id)
                     <=> \A i \in 1..Len(objs[id].commands) :
                            MemberSucceeded(objs, objs[id].commands[i])
               /\ Len(objs[id].commands) = 0 => Succeeded(Heap, id)

\* the composite holds the transfer, which has not succeeded, and the leaf,
\* which has: Succeeded() of the composite is false
C15_Witness ==
    /\ Len(objs[5].commands) = 2
    /\ objs[4].succeeded
    /\ ~objs[1].succeeded
    /\ ~Succeeded(Heap, 3)
    /\ ~Succeeded(Heap, 5)

\* a composite without members, after operations on it
C15_WitnessEmpty ==
    /\ Len(objs[5].commands) = 0
    /\ Succeeded(Heap, 5)
    /\ objs[4].succeeded
    /\ ~Succeeded(Heap, 3)

\* the leaves the most recent operation was run on: the leaf itself, or the
\* members of the composite
TouchedByLast ==
    IF objs[Last.id].kind = "leaf"
    THEN {Last.id}
    ELSE {objs[Last.id].commands[i] : i \in 1..Len(objs[Last.id].commands)}

\* C16: a leaf's succeeded flag changes only in Call() and SetSucceeded().
\* After every operation: an Undo(), of a leaf or of the composite, has
\* changed no command; a flag that differs from its value before the
\* operation belongs to a leaf the operation was a Call() or SetSucceeded()
\* on (directly or through the composite holding it); after Call() on a
\* leaf its flag is the outcome of that Call(), and after SetSucceeded(v) on
\* a leaf its flag is v.
C16_LeafFlagFrame ==
    Len(log) >= 1
        => /\ Last.op = "Undo" => objs = Last.objs
           /\ \A id \in 1..Len(objs) :
                 (objs[id].kind = "leaf"
                    /\ objs[id].succeeded # Last.objs[id].succeeded)
                     => /\ Last.op \in {"Call", "SetSucceeded"}
                        /\ id \in TouchedByLast
           /\ LastIs("Call", "leaf")
                 => objs[Last.id].succeeded
                        = AcceptedLeaf(Last.balance, objs[Last.id])
           /\ LastIs("SetSucceeded", "leaf")
                 => objs[Last.id].succeeded = Last.value

\* Undo() of a composite whose two members had succeeded and were both
\* reversed: the balances moved, the flags are still true
C16_Witness ==
    /\ LastIs("Undo", "composite")
    /\ Len(objs[Last.id].commands) = 2
    /\ \A a \in Accounts : balance[a] # Last.balance[a]
    /\ objs[1].succeeded
    /\ objs[2].succeeded

\* C17: composite SetSucceeded(v).  After every SetSucceeded(v) on a
\* composite the flag of every member is v, every member's Succeeded()
\* returns v, and every balance is what it was before.
C17_CompositeSetSucceeded ==
    LastIs("SetSucceeded", "composite")
        => /\ \A i \in 1..Len(objs[Last.id].commands) :
                 LET m == objs[Last.id].commands[i] IN
                 /\ objs[m].succeeded = Last.value
                 /\ Succeeded(Heap, m) = Last.value
           /\ balance = Last.balance

\* SetSucceeded(TRUE) on a composite of two members of which only the first
\* had a true flag
C17_Witness ==
    /\ LastIs("SetSucceeded", "composite")
    /\ Last.value
    /\ Len(objs[Last.id].commands) = 2
    /\ Last.objs[1].succeeded
    /\ ~Last.objs[2].succeeded
    /\ objs[2].succeeded

====
